---- MODULE Spec2Model ----
(***************************************************************************)
(* A model of typesense-python's configuration layer                       *)
(* (src/typesense/configuration.py: Node, Configuration) and of the        *)
(* Collection resource wrapper (src/typesense/collection.py).              *)
(*                                                                         *)
(* Python strings that the code takes apart (URLs) are sequences of        *)
(* one-character strings; the empty sequence is the empty string.          *)
(* urllib.parse.urlparse is modelled character by character, as CPython    *)
(* 3.11 implements it, over an alphabet without "%", whitespace and        *)
(* non-ASCII characters.                                                   *)
(*                                                                         *)
(* The names ConfigError and logger, which configuration.py uses without   *)
(* importing them, are taken to be the package's exception class and       *)
(* logger.  A value the code only tests for truth (a legacy key's value)   *)
(* is modelled by its truth value.  Record entries carry integer ports.    *)
(***************************************************************************)
EXTENDS Integers, Sequences, FiniteSets, TLC

VARIABLES
    \* Configuration.__init__
    cfg,            \* the mapping handed to the constructor
    pc,             \* the constructor's position
    log,            \* what logger.warn has been called with, in order
    nodes,          \* self.nodes
    nearest_node,   \* self.nearest_node: <<>> is None, <<n>> is the Node n
    settings,       \* self.api_key and the tuning attributes
    error,          \* the exception that left the constructor, if any
    \* Node.from_url / Node.url
    url_arg,        \* the string handed to Node.from_url
    upc,            \* position of the from_url / url() round trip
    made,           \* what from_url did: a Node or an exception
    out,            \* what Node.url() returned
    \* Configuration.validate_node_fields
    vnode,          \* the value handed to validate_node_fields
    vpc,
    vres,           \* what it returned
    \* Collection
    collection,     \* the Collection object
    calls,          \* every call made on the api-call handle, in order
    ret,            \* what the last Collection operation did
    cinput          \* what the last Collection operation was called with

vars == <<cfg, pc, log, nodes, nearest_node, settings, error,
          url_arg, upc, made, out, vnode, vpc, vres,
          collection, calls, ret, cinput>>

cfgVars == <<cfg, pc, log, nodes, nearest_node, settings, error>>
urlVars == <<url_arg, upc, made, out>>
valVars == <<vnode, vpc, vres>>
colVars == <<collection, calls, ret, cinput>>

(***************************************************************************)
(* Strings                                                                 *)
(***************************************************************************)
Min(S) == CHOOSE x \in S : \A y \in S : x <= y
Max(S) == CHOOSE x \in S : \A y \in S : x >= y

\* The least / greatest of a set of indices, 0 when it is empty (indices are
\* 1-based here, so Python's -1 is 0).
FirstOf(I) == IF I = {} THEN 0 ELSE Min(I)
LastOf(I)  == IF I = {} THEN 0 ELSE Max(I)

\* str.find(c, start): the least index >= start holding c
Find(s, c, start) == FirstOf({i \in start..Len(s) : s[i] = c})

\* str.rfind(c)
RFind(s, c) == LastOf({i \in 1..Len(s) : s[i] = c})

\* c in s
Has(s, c) == \E i \in 1..Len(s) : s[i] = c

\* s[a-1:b], a Python slice: 1-based inclusive ends here, clipped to the string
Slice(s, a, b) ==
    IF (IF a < 1 THEN 1 ELSE a) > (IF b > Len(s) THEN Len(s) ELSE b) THEN <<>>
    ELSE SubSeq(s, IF a < 1 THEN 1 ELSE a, IF b > Len(s) THEN Len(s) ELSE b)

\* s cut at index i, the character at i dropped; i = 0: <<s, "">>
CutAt(s, i) ==
    IF i = 0 THEN <<s, <<>>>>
    ELSE <<Slice(s, 1, i - 1), Slice(s, i + 1, Len(s))>>

\* s.partition(c): <<before, after>>; no c: <<s, "">>
Partition(s, c) == CutAt(s, Find(s, c, 1))

\* s.rpartition(c)[2]: what follows the last c; no c: s
AfterLast(s, c) == Slice(s, RFind(s, c) + 1, Len(s))

UpperLetters == {"H", "T", "P", "S"}
LowerLetters == {"h", "t", "p", "s", "u", "x", "q", "f"}
Digits == {"0", "1", "2", "3", "4", "5", "6", "7", "8", "9"}

\* str.lower() on one character
LowerChar(c) ==
    CASE c = "H" -> "h"
      [] c = "T" -> "t"
      [] c = "P" -> "p"
      [] c = "S" -> "s"
      [] OTHER -> c

Lower(s) == [i \in 1..Len(s) |-> LowerChar(s[i])]

IsAlpha(c) == c \in UpperLetters \cup LowerLetters
IsDigit(c) == c \in Digits
\* urllib.parse.scheme_chars: letters, digits and "+-."
IsSchemeChar(c) == IsAlpha(c) \/ IsDigit(c) \/ c \in {"+", "-", "."}

DigitVal(c) ==
    CASE c = "0" -> 0 [] c = "1" -> 1 [] c = "2" -> 2 [] c = "3" -> 3
      [] c = "4" -> 4 [] c = "5" -> 5 [] c = "6" -> 6 [] c = "7" -> 7
      [] c = "8" -> 8 [] c = "9" -> 9

DigitChar(d) ==
    CASE d = 0 -> "0" [] d = 1 -> "1" [] d = 2 -> "2" [] d = 3 -> "3"
      [] d = 4 -> "4" [] d = 5 -> "5" [] d = 6 -> "6" [] d = 7 -> "7"
      [] d = 8 -> "8" [] d = 9 -> "9"

\* int(s) for a string of decimal digits
RECURSIVE ParseInt(_)
ParseInt(s) ==
    IF s = <<>> THEN 0
    ELSE 10 * ParseInt(Slice(s, 1, Len(s) - 1)) + DigitVal(s[Len(s)])

\* str(n) for n >= 0, as '{2}'.format(port) renders an int
RECURSIVE IntToStr(_)
IntToStr(n) ==
    IF n < 10 THEN <<DigitChar(n)>>
    ELSE IntToStr(n \div 10) \o <<DigitChar(n % 10)>>

(***************************************************************************)
(* urllib.parse.urlparse, as Node.from_url uses it                         *)
(***************************************************************************)
\* The schemes of urllib.parse.uses_params that the alphabet can spell.
UsesParams ==
    { <<>>,
      <<"h", "t", "t", "p">>,
      <<"h", "t", "t", "p", "s">>,
      <<"s", "h", "t", "t", "p">>,
      <<"f", "t", "p">>,
      <<"s", "f", "t", "p">> }

\* The bracketed hosts ipaddress.ip_address() accepts, among those the
\* alphabet can spell.
ValidBracketedHosts == { <<":", ":", "1">> }

\* The scheme split of urlsplit, i the place of the first ":":
\* <<scheme, rest>>.
SchemeAt(u, i) ==
    IF i > 1 /\ IsAlpha(u[1]) /\ \A k \in 1..(i - 1) : IsSchemeChar(u[k])
    THEN <<Lower(Slice(u, 1, i - 1)), Slice(u, i + 1, Len(u))>>
    ELSE <<<<>>, u>>

SplitScheme(u) == SchemeAt(u, Find(u, ":", 1))

\* url[:2] == '//'
HasNetloc(rest) == Slice(rest, 1, 2) = <<"/", "/">>

\* _splitnetloc(url, 2): <<netloc, rest>> of a string that starts with "//",
\* cut before the first of "/", "?" and "#" (0: there is none).
NetlocTo(u, delim) ==
    IF delim = 0 THEN <<Slice(u, 3, Len(u)), <<>>>>
    ELSE <<Slice(u, 3, delim - 1), Slice(u, delim, Len(u))>>

SplitNetloc(u) == NetlocTo(u, FirstOf({i \in 3..Len(u) : u[i] \in {"/", "?", "#"}}))

\* The ValueError checks urlsplit makes on a netloc.
NetlocRaises(netloc) ==
    \/ Has(netloc, "[") /\ ~Has(netloc, "]")
    \/ Has(netloc, "]") /\ ~Has(netloc, "[")
    \/ /\ Has(netloc, "[") /\ Has(netloc, "]")
       /\ Partition(Partition(netloc, "[")[2], "]")[1] \notin ValidBracketedHosts

\* _splitparams(url): <<url, params>>
SplitParams(u) ==
    CutAt(u, IF Has(u, "/") THEN Find(u, ";", RFind(u, "/")) ELSE Find(u, ";", 1))

\* The ParseResult; raises = TRUE stands for urlparse's ValueError.
ParseResult(scheme, hasNet, netloc, pathParams, query, fragment) ==
    [ raises   |-> hasNet /\ NetlocRaises(netloc),
      scheme   |-> scheme,
      netloc   |-> netloc,
      path     |-> pathParams[1],
      params   |-> pathParams[2],
      query    |-> query,
      fragment |-> fragment ]

\* urlparse, last step: the params are split off the path
WithParams(scheme, hasNet, netloc, pathQuery, fragment) ==
    ParseResult(scheme, hasNet, netloc,
                IF scheme \in UsesParams /\ Has(pathQuery[1], ";")
                THEN SplitParams(pathQuery[1]) ELSE <<pathQuery[1], <<>>>>,
                pathQuery[2], fragment)

\* urlsplit: the fragment, then the query, are split off
WithQuery(scheme, hasNet, netloc, urlFragment) ==
    WithParams(scheme, hasNet, netloc, Partition(urlFragment[1], "?"), urlFragment[2])

WithFragment(scheme, hasNet, netlocRest) ==
    WithQuery(scheme, hasNet, netlocRest[1], Partition(netlocRest[2], "#"))

\* urlsplit: the netloc is split off what follows the scheme
WithNetloc(schemeRest) ==
    WithFragment(schemeRest[1], HasNetloc(schemeRest[2]),
                 IF HasNetloc(schemeRest[2]) THEN SplitNetloc(schemeRest[2])
                 ELSE <<<<>>, schemeRest[2]>>)

\* urlparse(url)
urlparse(u) == WithNetloc(SplitScheme(u))

\* _hostinfo of a bracketed host, hp what lies before and after the "]"
BracketedHostInfo(hp) == <<hp[1], Partition(hp[2], ":")[2]>>

\* _hostinfo: <<hostname, port>> as substrings of the netloc ("" for None).
HostInfo(netloc) ==
    IF Has(AfterLast(netloc, "@"), "[")
    THEN BracketedHostInfo(Partition(Partition(AfterLast(netloc, "@"), "[")[2], "]"))
    ELSE Partition(AfterLast(netloc, "@"), ":")

\* parsed.hostname: lower-cased; <<>> stands for None.
Hostname(parsed) == Lower(HostInfo(parsed.netloc)[1])

\* int(port) and the range check of the port property
PortValue(n) ==
    IF n <= 65535 THEN [kind |-> "int", val |-> n]
    ELSE [kind |-> "raises", val |-> 0]

\* The port property on the port substring p
PortOf(p) ==
    IF p = <<>> THEN [kind |-> "none", val |-> 0]
    ELSE IF \A i \in 1..Len(p) : IsDigit(p[i]) THEN PortValue(ParseInt(p))
    ELSE [kind |-> "raises", val |-> 0]

\* parsed.port: kind "none" is None, "int" carries the number, "raises" is
\* the ValueError for a port that is not decimal or is above 65535.
Port(parsed) == PortOf(HostInfo(parsed.netloc)[2])

(***************************************************************************)
(* Node                                                                    *)
(***************************************************************************)
\* Node.__init__ (last_access_ts, a clock reading, is left out)
Node(host, port, path, protocol) ==
    [host |-> host, port |-> port, path |-> path, protocol |-> protocol,
     healthy |-> TRUE]

NoNode == [host |-> <<>>, port |-> 0, path |-> <<>>, protocol |-> <<>>,
           healthy |-> FALSE]

\* What a call that builds a Node did: it returned the Node or it raised.
Returned(n) == [kind |-> "node", exc |-> "", msg |-> "", node |-> n]
Raised(exc, msg) == [kind |-> "raised", exc |-> exc, msg |-> msg, node |-> NoNode]
Idle == [kind |-> "idle", exc |-> "", msg |-> "", node |-> NoNode]

\* Node.from_url, once the URL is parsed and its host name and port are read
NodeFromParts(parsed, hostname, port) ==
    IF hostname = <<>>
    THEN Raised("ConfigError", "Node URL does not contain the host name.")
    ELSE IF port.kind = "raises" THEN Raised("ValueError", "port")
    ELSE IF port.kind = "none" \/ port.val = 0
    THEN Raised("ConfigError", "Node URL does not contain the port.")
    ELSE IF parsed.scheme = <<>>
    THEN Raised("ConfigError", "Node URL does not contain the protocol.")
    ELSE Returned(Node(hostname, port.val, parsed.path, parsed.scheme))

NodeFromParsed(parsed) ==
    IF parsed.raises THEN Raised("ValueError", "urlparse")
    ELSE NodeFromParts(parsed, Hostname(parsed), Port(parsed))

\* Node.from_url
from_url(u) == NodeFromParsed(urlparse(u))

\* Node.url
url(n) ==
    n.protocol \o <<":", "/", "/">> \o n.host \o <<":">> \o IntToStr(n.port) \o n.path

(***************************************************************************)
(* The URL strings Node.from_url is tried on: every concatenation of one   *)
(* choice per part.                                                        *)
(***************************************************************************)
SchemeParts == { <<>>, <<"h", "t", "t", "p", ":">>, <<"H", "T", "T", "P", ":">> }
MarkParts   == { <<>>, <<"/", "/">> }
UserParts   == { <<>>, <<"u", "@">> }
HostParts   == { <<>>, <<"h">>, <<"H">>, <<"[", ":", ":", "1", "]">>,
                 <<"[", ":", ":", "1">> }
PortParts   == { <<>>, <<":">>, <<":", "1">>, <<":", "0">>, <<":", "x">>,
                 <<":", "8", "1">> }
PathParts   == { <<>>, <<"/", "p">>, <<"/", "p", ";", "x">> }
TailParts   == { <<>>, <<"?", "q">>, <<"#", "f">> }

UrlPool ==
    { sc \o mk \o us \o ho \o po \o pa \o ta :
        sc \in SchemeParts, mk \in MarkParts, us \in UserParts, ho \in HostParts,
        po \in PortParts, pa \in PathParts, ta \in TailParts }

(***************************************************************************)
(* Configuration mappings                                                  *)
(*                                                                         *)
(* A node entry is a string (t = "str", its text in s), a dictionary       *)
(* (t = "dict", its key set in keys and the values of host, port, protocol *)
(* and path in the fields of those names) or None (t = "none").            *)
(***************************************************************************)
StrEntry(text) ==
    [t |-> "str", s |-> text, keys |-> {}, host |-> <<>>, port |-> 0,
     protocol |-> <<>>, path |-> <<>>]

DictEntry(keys, host, port, protocol, path) ==
    [t |-> "dict", s |-> <<>>, keys |-> keys,
     host     |-> IF "host" \in keys THEN host ELSE <<>>,
     port     |-> IF "port" \in keys THEN port ELSE 0,
     protocol |-> IF "protocol" \in keys THEN protocol ELSE <<>>,
     path     |-> IF "path" \in keys THEN path ELSE <<>>]

NoneEntry ==
    [t |-> "none", s |-> <<>>, keys |-> {}, host |-> <<>>, port |-> 0,
     protocol |-> <<>>, path |-> <<>>]

\* bool(entry), as `not nearest_node` reads it
EntryTruthy(e) ==
    \/ e.t = "str" /\ e.s # <<>>
    \/ e.t = "dict" /\ e.keys # {}

\* The value under `nodes`: a list of entries, a string, or None / absent.
ListNodes(items) == [t |-> "list", items |-> items, s |-> <<>>]
StrNodes(text)   == [t |-> "str", items |-> <<>>, s |-> text]
NoNodes          == [t |-> "none", items |-> <<>>, s |-> <<>>]

\* bool(nodes), as `not nodes` reads it
NodesTruthy(n) ==
    \/ n.t = "list" /\ n.items # <<>>
    \/ n.t = "str" /\ n.s # <<>>

\* What `for node in nodes` yields: the entries of a list, the characters of
\* a string.
Items(n) ==
    IF n.t = "str" THEN [i \in 1..Len(n.s) |-> StrEntry(<<n.s[i]>>)]
    ELSE n.items

LegacyKeys == {"timeout_seconds", "master_node", "read_replica_nodes"}

\* A mapping: what .get(key, None) gives for nodes, api_key and nearest_node
\* (the None values stand for an absent key too), and for each legacy key
\* whether it is absent, present with a falsy value (0, '', [], None) or
\* present with a truthy one.
Config(nodeVal, apiKey, nearest, legacy) ==
    [nodes |-> nodeVal, api_key |-> apiKey, nearest_node |-> nearest,
     legacy |-> legacy]

(***************************************************************************)
(* Configuration                                                           *)
(***************************************************************************)
expected_fields == {"host", "port", "protocol"}

\* validate_node_fields with one expected key taken for all of them
validate_node_fields_AnyField(node) ==
    IF node.t = "str" THEN TRUE
    ELSE expected_fields \cap node.keys # {}

\* Configuration.validate_node_fields
validate_node_fields(node) ==
    IF node.t = "str" THEN TRUE
    ELSE expected_fields \subseteq node.keys

\* The ConfigError messages (the source sets the key's name in backquotes).
NodesNotDefined   == "nodes is not defined."
ApiKeyNotDefined  == "api_key is not defined."
NodeEntryMsg      == "node entry must be a URL string or a dictionary with the following required keys: host, port, protocol"
NearestEntryMsg   == "nearest_node entry must be a URL string or a dictionary with the following required keys: host, port, protocol"

\* validate_config_dict with the api_key check ahead of the nodes check
validate_config_dict_ApiKeyFirst(c) ==
    IF ~EntryTruthy(c.api_key) THEN ApiKeyNotDefined
    ELSE IF ~NodesTruthy(c.nodes) THEN NodesNotDefined
    ELSE IF \E i \in 1..Len(Items(c.nodes)) : ~validate_node_fields(Items(c.nodes)[i])
    THEN NodeEntryMsg
    ELSE IF EntryTruthy(c.nearest_node) /\ ~validate_node_fields(c.nearest_node)
    THEN NearestEntryMsg
    ELSE ""

\* Configuration.validate_config_dict: the message of the ConfigError it
\* raises, "" when it returns.
validate_config_dict(c) ==
    IF ~NodesTruthy(c.nodes) THEN NodesNotDefined
    ELSE IF ~EntryTruthy(c.api_key) THEN ApiKeyNotDefined
    ELSE IF \E i \in 1..Len(Items(c.nodes)) : ~validate_node_fields(Items(c.nodes)[i])
    THEN NodeEntryMsg
    ELSE IF EntryTruthy(c.nearest_node) /\ ~validate_node_fields(c.nearest_node)
    THEN NearestEntryMsg
    ELSE ""

TimeoutWarning == "Deprecation warning: timeout_seconds is now renamed to connection_timeout_seconds"
MasterWarning  == "Deprecation warning: master_node is now consolidated to nodes, starting with Typesense Server v0.12"
ReplicaWarning == "Deprecation warning: read_replica_nodes is now consolidated to nodes, starting with Typesense Server v0.12"

\* if config_dict.get(key)
LegacyGiven(c, key) == c.legacy[key] = "truthy"

\* show_deprecation_warnings with the three checks chained by elif
show_deprecation_warnings_Exclusive(c) ==
    IF LegacyGiven(c, "timeout_seconds") THEN <<TimeoutWarning>>
    ELSE IF LegacyGiven(c, "master_node") THEN <<MasterWarning>>
    ELSE IF LegacyGiven(c, "read_replica_nodes") THEN <<ReplicaWarning>>
    ELSE <<>>

\* Configuration.show_deprecation_warnings: the lines it hands to logger.warn
show_deprecation_warnings(c) ==
    (IF LegacyGiven(c, "timeout_seconds") THEN <<TimeoutWarning>> ELSE <<>>)
    \o (IF LegacyGiven(c, "master_node") THEN <<MasterWarning>> ELSE <<>>)
    \o (IF LegacyGiven(c, "read_replica_nodes") THEN <<ReplicaWarning>> ELSE <<>>)

\* The record's path dropped
PathOrDefault_Dropped(e) == <<>>

\* The path a dictionary entry gives its Node: node_config.get('path', '')
PathOrDefault(e) == IF "path" \in e.keys THEN e.path ELSE <<>>

\* One entry turned into a Node, as the loop body and the nearest_node
\* branch of Configuration.__init__ do.
BuildNode(e) ==
    IF e.t = "str" THEN from_url(e.s)
    ELSE Returned(Node(e.host, e.port, PathOrDefault(e), e.protocol))

NoError == [exc |-> "", msg |-> "", at |-> ""]
Failure(exc, msg, at) == [exc |-> exc, msg |-> msg, at |-> at]

NoSettings == [api_key |-> <<>>, connection_timeout_seconds |-> 0, num_retries |-> 0,
               retry_interval_seconds |-> 0, healthcheck_interval_seconds |-> 0,
               verify |-> FALSE]

\* The attributes set after the nodes; the mappings tried here hold none of
\* the tuning keys, so each gets its default.
Settings(c) ==
    [api_key |-> IF c.api_key.t = "none" THEN <<>> ELSE c.api_key.s,
     connection_timeout_seconds |-> 3, num_retries |-> 3,
     retry_interval_seconds |-> 1, healthcheck_interval_seconds |-> 60,
     verify |-> TRUE]

\* The constructor validating before it warns: a rejected mapping logs nothing
CallShowDeprecationWarnings_AfterValidation ==
    /\ pc = "warn"
    /\ log' = IF validate_config_dict(cfg) = "" THEN log \o show_deprecation_warnings(cfg)
              ELSE log
    /\ pc' = "validate"
    /\ UNCHANGED <<cfg, nodes, nearest_node, settings, error>>
    /\ UNCHANGED <<urlVars, valVars, colVars>>

\* Configuration.__init__, first statement
CallShowDeprecationWarnings ==
    /\ pc = "warn"
    /\ log' = log \o show_deprecation_warnings(cfg)
    /\ pc' = "validate"
    /\ UNCHANGED <<cfg, nodes, nearest_node, settings, error>>
    /\ UNCHANGED <<urlVars, valVars, colVars>>

\* Configuration.__init__, second statement
CallValidateConfigDict ==
    /\ pc = "validate"
    /\ IF validate_config_dict(cfg) = ""
       THEN pc' = "nodes" /\ error' = error
       ELSE /\ pc' = "failed"
            /\ error' = Failure("ConfigError", validate_config_dict(cfg), "validate")
    /\ UNCHANGED <<cfg, log, nodes, nearest_node, settings>>
    /\ UNCHANGED <<urlVars, valVars, colVars>>

\* One turn of the loop over config_dict.get('nodes', []), r what building
\* the entry's Node did
AppendBuilt(r) ==
    IF r.kind = "node"
    THEN nodes' = Append(nodes, r.node) /\ UNCHANGED <<pc, error>>
    ELSE /\ pc' = "failed"
         /\ error' = Failure(r.exc, r.msg, "nodes")
         /\ nodes' = nodes

AppendNode ==
    /\ pc = "nodes"
    /\ Len(nodes) < Len(Items(cfg.nodes))
    /\ AppendBuilt(BuildNode(Items(cfg.nodes)[Len(nodes) + 1]))
    /\ UNCHANGED <<cfg, log, nearest_node, settings>>
    /\ UNCHANGED <<urlVars, valVars, colVars>>

\* The nearest_node branches that build a Node, r what building it did, and
\* the attributes set after them
SetBuilt(r) ==
    IF r.kind = "node"
    THEN /\ nearest_node' = <<r.node>>
         /\ settings' = Settings(cfg)
         /\ pc' = "done"
         /\ error' = error
    ELSE /\ pc' = "failed"
         /\ error' = Failure(r.exc, r.msg, "nearest_node")
         /\ UNCHANGED <<nearest_node, settings>>

\* After the loop: nearest_node and the remaining attributes
SetNearestNode ==
    /\ pc = "nodes"
    /\ Len(nodes) = Len(Items(cfg.nodes))
    /\ IF ~EntryTruthy(cfg.nearest_node)
       THEN /\ nearest_node' = <<>>
            /\ settings' = Settings(cfg)
            /\ pc' = "done"
            /\ error' = error
       ELSE SetBuilt(BuildNode(cfg.nearest_node))
    /\ UNCHANGED <<cfg, log, nodes>>
    /\ UNCHANGED <<urlVars, valVars, colVars>>

(***************************************************************************)
(* The mappings the constructor is tried on                                *)
(***************************************************************************)
MaxNodes == 2

Http    == <<"h", "t", "t", "p">>
GoodUrl    == Http \o <<":", "/", "/", "h", ":", "8", "1">>    \* http://h:81
NoPortUrl  == Http \o <<":", "/", "/", "h">>                   \* http://h
BadPortUrl == Http \o <<":", "/", "/", "h", ":", "x">>         \* http://h:x

GoodDict     == DictEntry({"host", "port", "protocol"}, <<"h">>, 81, Http, <<>>)
PathDict     == DictEntry({"host", "port", "protocol", "path"}, <<"h">>, 81, Http, <<"/", "p">>)
WrongDict    == DictEntry({"host", "port", "wrong_field"}, <<"h">>, 81, <<>>, <<>>)
EmptyValDict == DictEntry({"host", "port", "protocol"}, <<>>, 0, <<>>, <<>>)
EmptyDict    == DictEntry({}, <<>>, 0, <<>>, <<>>)

EntryPool ==
    { StrEntry(GoodUrl), StrEntry(NoPortUrl), StrEntry(BadPortUrl),
      GoodDict, PathDict, WrongDict, EmptyValDict }

NearestPool ==
    { NoneEntry, EmptyDict, StrEntry(GoodUrl), StrEntry(NoPortUrl),
      GoodDict, WrongDict, EmptyValDict }

ApiKeyPool == { NoneEntry, StrEntry(<<>>), StrEntry(<<"x">>) }

NodeLists == UNION { [1..n -> EntryPool] : n \in 0..MaxNodes }

NodesPool == { NoNodes, StrNodes(GoodUrl) } \cup { ListNodes(l) : l \in NodeLists }

NoLegacy == [k \in LegacyKeys |-> "absent"]

LegacyPool == [LegacyKeys -> {"absent", "falsy", "truthy"}]

\* Every shape of nodes, api_key and nearest_node without legacy keys, and
\* every combination of the legacy keys over a few of those shapes.
ConfigPool ==
    { Config(n, a, e, NoLegacy) :
        n \in NodesPool, a \in ApiKeyPool, e \in NearestPool }
    \cup
    { Config(n, a, e, l) :
        n \in { NoNodes, ListNodes(<<GoodDict>>), ListNodes(<<WrongDict>>),
                ListNodes(<<StrEntry(NoPortUrl)>>) },
        a \in { NoneEntry, StrEntry(<<"x">>) }, e \in { NoneEntry, WrongDict },
        l \in LegacyPool }

(***************************************************************************)
(* Node.from_url followed by Node.url                                      *)
(***************************************************************************)
CallFromUrl ==
    /\ upc = "start"
    /\ made' = from_url(url_arg)
    /\ upc' = "made"
    /\ UNCHANGED <<url_arg, out>>
    /\ UNCHANGED <<cfgVars, valVars, colVars>>

CallUrl ==
    /\ upc = "made"
    /\ made.kind = "node"
    /\ out' = url(made.node)
    /\ upc' = "done"
    /\ UNCHANGED <<url_arg, made>>
    /\ UNCHANGED <<cfgVars, valVars, colVars>>

(***************************************************************************)
(* Configuration.validate_node_fields on its own                           *)
(***************************************************************************)
DictKeys == {"host", "port", "protocol", "path", "wrong_field"}

ValuePool ==
    { DictEntry(ks, h, p, pr, <<"/", "p">>) :
        ks \in SUBSET DictKeys, h \in {<<>>, <<"h">>}, p \in {0, 81},
        pr \in {<<>>, Http} }
    \cup { StrEntry(t) : t \in {<<>>, <<"h">>, NoPortUrl, GoodUrl} }

CallValidateNodeFields ==
    /\ vpc = "start"
    /\ vres' = validate_node_fields(vnode)
    /\ vpc' = "done"
    /\ UNCHANGED vnode
    /\ UNCHANGED <<cfgVars, urlVars, colVars>>

(***************************************************************************)
(* Collection                                                              *)
(***************************************************************************)
MaxCalls == 2

\* Collections.RESOURCE_PATH
RESOURCE_PATH == "/collections"

\* Collection.__init__
Collection(api_call, name) ==
    [name |-> name, api_call |-> api_call,
     documents |-> [api_call |-> api_call, name |-> name],
     overrides |-> [api_call |-> api_call, name |-> name],
     synonyms  |-> [api_call |-> api_call, name |-> name]]

\* Collection._endpoint_path: f"{Collections.RESOURCE_PATH}/{self.name}"
endpoint_path(c) == <<RESOURCE_PATH, "/", c.name>>

\* What one call on the api-call handle can do: return a decoded response
\* or raise one of its errors.
HandleOutcomes ==
    { [kind |-> "returned", val |-> "schema"],
      [kind |-> "raised", val |-> "RequestError"],
      [kind |-> "raised", val |-> "ObjectNotFound"] }

NamePool   == {"foo", "bar"}
BodyPool   == {"body1", "body2"}
ParamsPool == {"None", "{}", "{x: y}"}

\* One call on the handle: the verb, what was passed, and what the handle did.
ApiCall(verb, endpoint, body, params, entity_type, as_json, outcome) ==
    [verb |-> verb, endpoint |-> endpoint, body |-> body, params |-> params,
     entity_type |-> entity_type, as_json |-> as_json, outcome |-> outcome]

\* Collection.retrieve
retrieve ==
    /\ Len(calls) < MaxCalls
    /\ \E o \in HandleOutcomes :
         /\ calls' = Append(calls, ApiCall("GET", endpoint_path(collection), "unset",
                                           "unset", "CollectionSchema", "True", o))
         /\ ret' = o
    /\ cinput' = [op |-> "retrieve", arg |-> "unset"]
    /\ UNCHANGED collection
    /\ UNCHANGED <<cfgVars, urlVars, valVars>>

\* Collection.update
update ==
    /\ Len(calls) < MaxCalls
    /\ \E schema_change \in BodyPool, o \in HandleOutcomes :
         /\ calls' = Append(calls, ApiCall("PATCH", endpoint_path(collection),
                                           schema_change, "unset",
                                           "CollectionUpdateSchema", "unset", o))
         /\ ret' = o
         /\ cinput' = [op |-> "update", arg |-> schema_change]
    /\ UNCHANGED collection
    /\ UNCHANGED <<cfgVars, urlVars, valVars>>

\* delete that does not forward its params
delete_DropsParams ==
    /\ Len(calls) < MaxCalls
    /\ \E params \in ParamsPool, o \in HandleOutcomes :
         /\ calls' = Append(calls, ApiCall("DELETE", endpoint_path(collection), "unset",
                                           "None", "CollectionSchema", "unset", o))
         /\ ret' = o
         /\ cinput' = [op |-> "delete", arg |-> params]
    /\ UNCHANGED collection
    /\ UNCHANGED <<cfgVars, urlVars, valVars>>

\* Collection.delete: params defaults to None
delete ==
    /\ Len(calls) < MaxCalls
    /\ \E params \in ParamsPool, o \in HandleOutcomes :
         /\ calls' = Append(calls, ApiCall("DELETE", endpoint_path(collection), "unset",
                                           params, "CollectionSchema", "unset", o))
         /\ ret' = o
         /\ cinput' = [op |-> "delete", arg |-> params]
    /\ UNCHANGED collection
    /\ UNCHANGED <<cfgVars, urlVars, valVars>>

(***************************************************************************)
(* The specification: one of the four parts runs, the others stay idle.    *)
(***************************************************************************)
CfgIdle ==
    /\ cfg = Config(NoNodes, NoneEntry, NoneEntry, NoLegacy)
    /\ pc = "idle" /\ log = <<>> /\ nodes = <<>> /\ nearest_node = <<>>
    /\ settings = NoSettings /\ error = NoError

UrlIdle == url_arg = <<>> /\ upc = "idle" /\ made = Idle /\ out = <<>>

ValIdle == vnode = NoneEntry /\ vpc = "idle" /\ vres = FALSE

ColIdle ==
    /\ collection = Collection("none", "none")
    /\ calls = <<>>
    /\ ret = [kind |-> "none", val |-> "none"]
    /\ cinput = [op |-> "none", arg |-> "none"]

\* Configuration(config_dict) is called
InitConfiguration ==
    /\ cfg \in ConfigPool
    /\ pc = "warn" /\ log = <<>> /\ nodes = <<>> /\ nearest_node = <<>>
    /\ settings = NoSettings /\ error = NoError
    /\ UrlIdle /\ ValIdle /\ ColIdle

\* Node.from_url(url) is called
InitUrl ==
    /\ url_arg \in UrlPool
    /\ upc = "start" /\ made = Idle /\ out = <<>>
    /\ CfgIdle /\ ValIdle /\ ColIdle

\* validate_node_fields(node) is called
InitValidate ==
    /\ vnode \in ValuePool
    /\ vpc = "start" /\ vres = FALSE
    /\ CfgIdle /\ UrlIdle /\ ColIdle

\* Collection(api_call, name) has been constructed
InitCollection ==
    /\ \E name \in NamePool : collection = Collection("api_call", name)
    /\ calls = <<>>
    /\ ret = [kind |-> "none", val |-> "none"]
    /\ cinput = [op |-> "none", arg |-> "none"]
    /\ CfgIdle /\ UrlIdle /\ ValIdle

Init == InitConfiguration \/ InitUrl \/ InitValidate \/ InitCollection

CollectionActive == collection.api_call = "api_call"

Next ==
    \/ CallShowDeprecationWarnings
    \/ CallValidateConfigDict
    \/ AppendNode
    \/ SetNearestNode
    \/ CallFromUrl
    \/ CallUrl
    \/ CallValidateNodeFields
    \/ (CollectionActive /\ retrieve)
    \/ (CollectionActive /\ update)
    \/ (CollectionActive /\ delete)

Spec == Init /\ [][Next]_vars

(***************************************************************************)
(* Properties                                                              *)
(***************************************************************************)
RequiredKeys == {"host", "port", "protocol"}

\* An entry that is a dictionary without one of the three required keys
LacksRequiredKey(e) == e.t = "dict" /\ \E k \in RequiredKeys : k \notin e.keys

\* `nodes` is absent (or None) or empty
NodesMissing(c) ==
    \/ c.nodes.t = "none"
    \/ c.nodes.t = "list" /\ Len(c.nodes.items) = 0
    \/ c.nodes.t = "str" /\ Len(c.nodes.s) = 0

\* `api_key` is absent (or None) or empty
ApiKeyMissing(c) == c.api_key.t = "none" \/ Len(c.api_key.s) = 0

\* Some entry of the `nodes` list lacks a required key (the characters of a
\* `nodes` string are strings, so none of them does)
SomeNodeInvalid(c) ==
    c.nodes.t = "list" /\ \E i \in 1..Len(c.nodes.items) : LacksRequiredKey(c.nodes.items[i])

\* `nearest_node` is present and truthy
NearestGiven(c) ==
    \/ c.nearest_node.t = "str" /\ Len(c.nearest_node.s) > 0
    \/ c.nearest_node.t = "dict" /\ Cardinality(c.nearest_node.keys) > 0

ValidationDone == pc \in {"nodes", "done", "failed"}
RejectedWith(msg) == pc = "failed" /\ error = Failure("ConfigError", msg, "validate")
Accepted == ValidationDone /\ ~(pc = "failed" /\ error.at = "validate")

\* C1: validate_config_dict reports the first failing check in the order
\* nodes-presence, api_key-presence, node entries, nearest_node, and raises
\* nothing when every check passes.
C1_ValidationOrder ==
    ValidationDone =>
        IF NodesMissing(cfg) THEN RejectedWith(NodesNotDefined)
        ELSE IF ApiKeyMissing(cfg) THEN RejectedWith(ApiKeyNotDefined)
        ELSE IF SomeNodeInvalid(cfg) THEN RejectedWith(NodeEntryMsg)
        ELSE IF NearestGiven(cfg) /\ LacksRequiredKey(cfg.nearest_node)
        THEN RejectedWith(NearestEntryMsg)
        ELSE Accepted

\* C1 witness: valid nodes and api_key, and a nearest_node that lacks a key,
\* rejected with the nearest_node message.
C1_Witness ==
    /\ RejectedWith(NearestEntryMsg)
    /\ cfg.nodes = ListNodes(<<GoodDict, StrEntry(GoodUrl)>>)
    /\ cfg.nearest_node = WrongDict

\* C2: validate_node_fields returns true exactly for a string (any string)
\* and for a record that holds host, port and protocol, whatever else it
\* holds.
C2_ValidateNodeFields ==
    vpc = "done" =>
        (vres <=> \/ vnode.t = "str"
                  \/ /\ vnode.t = "dict"
                     /\ "host" \in vnode.keys
                     /\ "port" \in vnode.keys
                     /\ "protocol" \in vnode.keys)

\* C2 witness: a record with host and port but no protocol (and an extra
\* key) was refused.
C2_Witness ==
    /\ vpc = "done"
    /\ vnode.t = "dict"
    /\ vnode.keys = {"host", "port", "wrong_field"}
    /\ ~vres

NodeNonEmpty(n) == n.host # <<>> /\ n.port # 0 /\ n.protocol # <<>>

\* C3: every Node that exists after construction has a non-empty host, port
\* and protocol: the Node from_url returned, and every Node of nodes and
\* nearest_node of a constructed Configuration.
C3_NodesNonEmpty ==
    /\ (upc \in {"made", "done"} /\ made.kind = "node") => NodeNonEmpty(made.node)
    /\ pc = "done" =>
         /\ \A i \in 1..Len(nodes) : NodeNonEmpty(nodes[i])
         /\ \A i \in 1..Len(nearest_node) : NodeNonEmpty(nearest_node[i])

WarningOf(key) ==
    CASE key = "timeout_seconds" -> TimeoutWarning
      [] key = "master_node" -> MasterWarning
      [] key = "read_replica_nodes" -> ReplicaWarning

LegacyOrder == <<"timeout_seconds", "master_node", "read_replica_nodes">>

\* The warnings of the legacy keys among `keys`, in the order of the checks
WarningsFor(keys) ==
    LET IsIn(k) == k \in keys
        picked == SelectSeq(LegacyOrder, IsIn)
    IN  [i \in 1..Len(picked) |-> WarningOf(picked[i])]

TruthyLegacy(c) == {k \in LegacyKeys : c.legacy[k] = "truthy"}
PresentLegacy(c) == {k \in LegacyKeys : c.legacy[k] # "absent"}

ValidUrl(u) ==
    /\ ~urlparse(u).raises
    /\ urlparse(u).scheme # <<>>
    /\ Hostname(urlparse(u)) # <<>>
    /\ Port(urlparse(u)).kind = "int"
    /\ Port(urlparse(u)).val > 0

\* Two URLs with the same host, port, scheme and path
EquivalentUrls(a, b) ==
    /\ ~urlparse(a).raises
    /\ ~urlparse(b).raises
    /\ Hostname(urlparse(a)) = Hostname(urlparse(b))
    /\ Port(urlparse(a)) = Port(urlparse(b))
    /\ urlparse(a).scheme = urlparse(b).scheme
    /\ urlparse(a).path = urlparse(b).path

\* C5: for a valid URL (scheme, host and port), from_url(url).url() is a URL
\* equivalent to url: same host, port, scheme and path.
C5_RoundTrip ==
    ValidUrl(url_arg) =>
        /\ upc = "made" => made.kind = "node"
        /\ upc = "done" => EquivalentUrls(out, url_arg)

HostMissing(u)   == Hostname(urlparse(u)) = <<>>
PortMissing(u)   == Port(urlparse(u)).kind = "none"
SchemeMissing(u) == urlparse(u).scheme = <<>>

\* C6: from_url fails with ConfigError exactly when the URL's hostname, port
\* or scheme is missing (the hostname reported first, then the port, then
\* the scheme), and in every other case returns the Node of the URL's
\* hostname, port, scheme and path, healthy.
C6_FromUrlErrors ==
    upc \in {"made", "done"} =>
        /\ (made.kind = "raised" /\ made.exc = "ConfigError")
              <=> (HostMissing(url_arg) \/ PortMissing(url_arg) \/ SchemeMissing(url_arg))
        /\ HostMissing(url_arg) =>
              made.msg = "Node URL does not contain the host name."
        /\ (~HostMissing(url_arg) /\ PortMissing(url_arg)) =>
              made.msg = "Node URL does not contain the port."
        /\ (~HostMissing(url_arg) /\ ~PortMissing(url_arg) /\ SchemeMissing(url_arg)) =>
              made.msg = "Node URL does not contain the protocol."
        /\ ~(HostMissing(url_arg) \/ PortMissing(url_arg) \/ SchemeMissing(url_arg)) =>
              /\ made.kind = "node"
              /\ made.node = [host |-> Hostname(urlparse(url_arg)),
                              port |-> Port(urlparse(url_arg)).val,
                              path |-> urlparse(url_arg).path,
                              protocol |-> urlparse(url_arg).scheme,
                              healthy |-> TRUE]

WarningsDone == pc \in {"validate", "nodes", "done", "failed"}

\* C7 as stated: one warning per legacy key present in the mapping, whatever
\* its value.
C7_WarnWhenPresent ==
    WarningsDone => log = WarningsFor(PresentLegacy(cfg))

\* C7, amended: show_deprecation_warnings never fails and emits exactly one
\* warning per legacy key whose value is truthy, whatever other keys are
\* present; it emits none for a key that is absent or holds a falsy value.
C7_WarnWhenTruthy ==
    /\ pc = "warn" => ENABLED CallShowDeprecationWarnings
    /\ pc = "validate" => error = NoError
    /\ WarningsDone =>
         /\ log = WarningsFor(TruthyLegacy(cfg))
         /\ Len(log) = Cardinality(TruthyLegacy(cfg))

\* C7 witness: of three legacy keys present, the two with a truthy value
\* were warned about and the one with a falsy value was not.
C7_Witness ==
    /\ WarningsDone
    /\ cfg.legacy = [k \in LegacyKeys |->
                        IF k = "master_node" THEN "falsy" ELSE "truthy"]
    /\ log = <<TimeoutWarning, ReplicaWarning>>

\* The Node the claim expects for one entry
ExpectedNode(e) ==
    IF e.t = "str" THEN from_url(e.s).node
    ELSE [host |-> e.host, port |-> e.port,
          path |-> IF "path" \in e.keys THEN e.path ELSE <<>>,
          protocol |-> e.protocol, healthy |-> TRUE]

\* nodes [{host, port, protocol}], nearest_node "http://h:81", api_key "x"
ExampleConfig ==
    Config(ListNodes(<<GoodDict>>), StrEntry(<<"x">>), StrEntry(GoodUrl), NoLegacy)

ExampleNode ==
    [host |-> <<"h">>, port |-> 81, path |-> <<>>, protocol |-> Http, healthy |-> TRUE]

\* C8: a constructed Configuration holds one Node per entry of `nodes`, in
\* order, each built by the entry's rule (from_url for a string; host, port,
\* protocol and path-or-'' for a record), and nearest_node built the same
\* way when it is truthy, None otherwise.
C8_NodesBuilt ==
    pc = "done" =>
        /\ cfg.nodes.t = "list"
        /\ Len(nodes) = Len(cfg.nodes.items)
        /\ \A i \in 1..Len(nodes) : nodes[i] = ExpectedNode(cfg.nodes.items[i])
        /\ nearest_node = IF NearestGiven(cfg) THEN <<ExpectedNode(cfg.nearest_node)>>
                          ELSE <<>>
        /\ cfg = ExampleConfig =>
             nodes = <<ExampleNode>> /\ nearest_node = <<ExampleNode>>

\* C8 witness: a record with a path, then a URL string, and a record as
\* nearest_node, all built.
C8_Witness ==
    /\ pc = "done"
    /\ cfg.nodes = ListNodes(<<PathDict, StrEntry(GoodUrl)>>)
    /\ cfg.nearest_node = GoodDict
    /\ Len(nodes) = 2
    /\ nodes[1].path = <<"/", "p">>

\* C9, one step: an operation makes one call, on /collections/{name}, with
\* the verb and the body or params of the operation, hands back what the
\* handle did, and leaves the Collection as it was.
C9_Step ==
    (calls' # calls \/ ret' # ret \/ cinput' # cinput \/ collection' # collection) =>
        /\ collection' = collection
        /\ Len(calls') = Len(calls) + 1
        /\ SubSeq(calls', 1, Len(calls)) = calls
        /\ calls'[Len(calls')].endpoint = <<"/collections", "/", collection.name>>
        /\ ret' = calls'[Len(calls')].outcome
        /\ cinput'.op \in {"retrieve", "update", "delete"}
        /\ cinput'.op = "retrieve" =>
             /\ calls'[Len(calls')].verb = "GET"
             /\ calls'[Len(calls')].body = "unset"
             /\ calls'[Len(calls')].params = "unset"
        /\ cinput'.op = "update" =>
             /\ calls'[Len(calls')].verb = "PATCH"
             /\ calls'[Len(calls')].body = cinput'.arg
             /\ calls'[Len(calls')].params = "unset"
        /\ cinput'.op = "delete" =>
             /\ calls'[Len(calls')].verb = "DELETE"
             /\ calls'[Len(calls')].body = "unset"
             /\ calls'[Len(calls')].params = cinput'.arg

\* C9: each Collection operation makes exactly one call on the handle, on
\* /collections/{name}: retrieve one GET, update one PATCH with its body,
\* delete one DELETE with its params (None when none are given); it returns
\* or raises what the handle did, and changes nothing of the Collection.
C9_OneCallPerOperation == [][C9_Step]_vars

\* C9 witness: delete({x: y}) on a handle that raised, after another call.
C9_Witness ==
    /\ Len(calls) = 2
    /\ cinput = [op |-> "delete", arg |-> "{x: y}"]
    /\ calls[2].params = "{x: y}"
    /\ ret = [kind |-> "raised", val |-> "ObjectNotFound"]

\* The entries of `nodes` and nearest_node, in the order the constructor
\* builds them
BuildOrder(c) ==
    Items(c.nodes) \o (IF NearestGiven(c) THEN <<c.nearest_node>> ELSE <<>>)

\* from_url fails on the entry for a missing hostname, port or scheme
FromUrlFails(e) ==
    e.t = "str" /\ from_url(e.s).kind = "raised" /\ from_url(e.s).exc = "ConfigError"

\* C10: for a mapping validate_config_dict accepts, construction fails with
\* ConfigError exactly when from_url fails on some string entry of `nodes`
\* or on a string nearest_node, and then the Nodes of all earlier entries
\* are built; a `nodes` that is one URL string is accepted and fails so; a
\* mapping of records only never fails with ConfigError.
C10_ConstructionFailure ==
    (Accepted /\ pc \in {"done", "failed"}) =>
        /\ (pc = "failed" /\ error.exc = "ConfigError")
              <=> (\E i \in 1..Len(BuildOrder(cfg)) : FromUrlFails(BuildOrder(cfg)[i]))
        /\ (pc = "failed" /\ error.at = "nodes") =>
              /\ from_url(Items(cfg.nodes)[Len(nodes) + 1].s).kind = "raised"
              /\ \A i \in 1..Len(nodes) : nodes[i] = ExpectedNode(Items(cfg.nodes)[i])
        /\ cfg.nodes.t = "str" => pc = "failed" /\ error.exc = "ConfigError"
        /\ (\A i \in 1..Len(BuildOrder(cfg)) : BuildOrder(cfg)[i].t = "dict") =>
              pc = "done"

====
